---------------------------- MODULE Spec2Model ----------------------------
(***************************************************************************)
(* House affordability & mortgage risk calculator (src/app.py).            *)
(*                                                                         *)
(* Number representation.  The program computes in binary floating point.  *)
(* Here every real quantity is a fixed-point integer and every arithmetic  *)
(* operation rounds its exact result to the nearest grid point:            *)
(*   money                 : cents                    (1 dollar = 100)     *)
(*   percent inputs        : hundredths of a percent  (6.5 % = 650)        *)
(*   ratios, factors       : multiples of 1/Scale     (1.0 = Scale)        *)
(*   periodic rates        : multiples of 1/RateScale (1.0 = RateScale)    *)
(* A float carries a fixed number of significant digits, so a number near  *)
(* 1 is resolved more coarsely than a number near 0: a rate is resolved    *)
(* to 1/RateScale, but the sum 1 + rate only to 1/Scale.                   *)
(* None is NoneVal; a home price of None is 0 (the widget's minimum is     *)
(* 1000, so 0 is never a price, and the script only tests its truthiness). *)
(***************************************************************************)
EXTENDS Integers, Sequences, FiniteSets, TLC

Scale     == 10^7
RateScale == 10^8
Cents     == 10^2
NoneVal   == 0 - 1

----------------------------------------------------------------------------
(* Arithmetic on the grid                                                  *)

Abs(x)    == IF x < 0 THEN 0 - x ELSE x
Sgn(x)    == IF x < 0 THEN 0 - 1 ELSE 1
Min(a, b) == IF a <= b THEN a ELSE b
Max(a, b) == IF a >= b THEN a ELSE b

\* <<q, r>> with a*b = q*c + r and 0 <= r < c, for a, b >= 0 and
\* 0 < c < 2^29, computed without forming a product wider than the machine
\* integer: b is taken apart in digits of radix R = 2^30 \div c.
RECURSIVE MulDivQR(_, _, _)
MulDivQR(a, b, c) ==
    IF b = 0 \/ a <= 2147483647 \div b
    THEN <<(a * b) \div c, (a * b) % c>>
    ELSE CHOOSE qr \in
           { << (1073741824 \div c) * h[1] + (b % (1073741824 \div c)) * (a \div c)
                  + ((1073741824 \div c) * h[2] + (b % (1073741824 \div c)) * (a % c)) \div c,
                ((1073741824 \div c) * h[2] + (b % (1073741824 \div c)) * (a % c)) % c >>
             : h \in { MulDivQR(a, b \div (1073741824 \div c), c) } } : TRUE

\* x[1]*x[2]/x[3] rounded to the nearest integer (halves away from zero)
RoundedQuotient(x) ==
    CHOOSE n \in
      { Sgn(x[1]) * Sgn(x[2]) * Sgn(x[3])
          * (qr[1] + (IF 2 * qr[2] >= Abs(x[3]) THEN 1 ELSE 0))
        : qr \in { MulDivQR(Abs(x[1]), Abs(x[2]), Abs(x[3])) } } : TRUE

\* a*b/c rounded to the nearest integer; c # 0.  Each operand is evaluated
\* once, before the product is formed.
RMulDiv(a, b, c) == CHOOSE n \in { RoundedQuotient(x) : x \in { <<a, b, c>> } } : TRUE

\* product and quotient of two Scale-d numbers (or of money and a Scale-d one)
FMul(a, b) == RMulDiv(a, b, Scale)
FDiv(a, b) == RMulDiv(a, Scale, b)

\* acc * sq ** n by binary exponentiation
RECURSIVE PowIter(_, _, _)
PowIter(acc, sq, n) ==
    IF n = 0 THEN acc
    ELSE CHOOSE r \in
           { PowIter(x[1], x[2], n \div 2)
             : x \in { << IF n % 2 = 1 THEN FMul(acc, sq) ELSE acc,
                          IF n > 1 THEN FMul(sq, sq) ELSE sq >> } } : TRUE

\* base ** n for a Scale-d base, n >= 0
FPow(base, n) == PowIter(Scale, base, n)

----------------------------------------------------------------------------
(* Formula library                                                         *)

\* a * rate for an amount a and a periodic rate
RateMul(a, rate) == RMulDiv(a, rate, RateScale)

\* The float sum 1 + rate: a positive rate below half the resolution of
\* the sum is absorbed and the sum is exactly 1.
OnePlus(rate) == Scale + RMulDiv(rate, Scale, RateScale)

\* 1 - (1 + rate) ** -nper, the divisor of pmt and the factor of invert_pmt
Discount(rate, nper) == Scale - FDiv(Scale, FPow(OnePlus(rate), nper))

\* pmt divides by zero (ZeroDivisionError) when the divisor is 0.0
PmtRaises(rate, nper) == rate # 0 /\ Discount(rate, nper) = 0

\* pmt(rate, nper, pv) where it returns: pv in cents.  The product
\* rate * pv keeps the float's digits; the quotient lands on the cent grid.
pmt(rate, nper, pv) ==
    IF rate = 0
    THEN RMulDiv(pv, 1, nper)
    ELSE RMulDiv(pv, rate, (RateScale \div Scale) * Discount(rate, nper))

\* invert_pmt(payment, rate, nper); it never raises
invert_pmt(payment, rate, nper) ==
    IF rate = 0
    THEN payment * nper
    ELSE RMulDiv(payment, (RateScale \div Scale) * Discount(rate, nper), rate)

\* annual percent (in hundredths of a percent) / 100 / 12
MonthlyRate(annual_rate) == RMulDiv(annual_rate, RateScale, 100 * 100 * 12)

----------------------------------------------------------------------------
(* Risk model                                                              *)

CreditBands == {"760+", "720-759", "680-719", "640-679", "Under 640"}

\* credit_risks.get(credit_score_band, 0.5)
credit_risks(band) ==
    CASE band = "760+"      -> Scale \div 10
      [] band = "720-759"   -> 3 * (Scale \div 10)
      [] band = "680-719"   -> 5 * (Scale \div 10)
      [] band = "640-679"   -> 7 * (Scale \div 10)
      [] band = "Under 640" -> Scale
      [] OTHER              -> 5 * (Scale \div 10)

\* A slip that inverts the DTI term (lower DTI scored as riskier).
calculate_risk_score_inverted(back_end_dti, ltv, credit_score_band) ==
    LET dti_risk    == Scale - Min(FDiv(back_end_dti, Scale \div 2), Scale)
        ltv_risk    == Min(FDiv(ltv, Scale), Scale)
        credit_risk == credit_risks(credit_score_band)
        risk_score  == (FMul(dti_risk, 5 * (Scale \div 10))
                        + FMul(ltv_risk, 3 * (Scale \div 10))
                        + FMul(credit_risk, 2 * (Scale \div 10))) * 100
    IN  Min(100 * Scale, Max(0, risk_score))

\* calculate_risk_score: the score is Scale-d (100.0 = 100 * Scale)
calculate_risk_score(back_end_dti, ltv, credit_score_band) ==
    LET dti_risk    == Min(FDiv(back_end_dti, Scale \div 2), Scale)
        ltv_risk    == Min(FDiv(ltv, Scale), Scale)
        credit_risk == credit_risks(credit_score_band)
        risk_score  == (FMul(dti_risk, 5 * (Scale \div 10))
                        + FMul(ltv_risk, 3 * (Scale \div 10))
                        + FMul(credit_risk, 2 * (Scale \div 10))) * 100
    IN  Min(100 * Scale, Max(0, risk_score))

----------------------------------------------------------------------------
(* Amortization engine                                                     *)

\* A slip that records the month's interest as the running total.
AmortBody_cum_reset(balance, cumulative_interest, month, monthly_rate, monthly_payment) ==
    LET interest  == RateMul(balance, monthly_rate)
        principal == monthly_payment - interest
        balance2  == Max(0, balance - principal)
        cum2      == interest
    IN  [ row |-> [ Month |-> month,
                    BeginningBalance |-> balance2 + principal,
                    Interest |-> interest,
                    Principal |-> principal,
                    EndingBalance |-> balance2,
                    CumulativeInterest |-> cum2 ],
          balance |-> balance2,
          cumulative_interest |-> cum2 ]

\* The body of the for loop of make_amortization_schedule: the row it
\* appends and the values it leaves in balance and cumulative_interest.
AmortBody(balance, cumulative_interest, month, monthly_rate, monthly_payment) ==
    LET interest  == RateMul(balance, monthly_rate)
        principal == monthly_payment - interest
        balance2  == Max(0, balance - principal)
        cum2      == cumulative_interest + interest
    IN  [ row |-> [ Month |-> month,
                    BeginningBalance |-> balance2 + principal,
                    Interest |-> interest,
                    Principal |-> principal,
                    EndingBalance |-> balance2,
                    CumulativeInterest |-> cum2 ],
          balance |-> balance2,
          cumulative_interest |-> cum2 ]

----------------------------------------------------------------------------
(* The script: one run per user interaction                                *)

VARIABLES
    scenarios,   \* st.session_state.scenarios
    nsaves,      \* number of "Save Scenario" presses so far (stands for the timestamp)
    nruns,       \* number of script runs so far
    inp,         \* the widget values of the current run (save_scenario: the button)
    pc,          \* position of the current run in the script
    defined,     \* names bound in the namespace of the current run
    loc,         \* values of the names of the current run
    prices,      \* rate sensitivity curve (prices)
    dp_percents, \* down-payment sensitivity curve (x values)
    payments,    \* down-payment sensitivity curve (y values)
    am,          \* locals of a call of make_amortization_schedule
    schedule,    \* rows appended by that call
    rk,          \* two successive calls of calculate_risk_score
    rt           \* one round trip through pmt and invert_pmt

ui_vars == <<scenarios, nsaves, nruns, inp, pc, defined, loc, prices, dp_percents, payments>>
vars    == <<scenarios, nsaves, nruns, inp, pc, defined, loc, prices, dp_percents, payments,
             am, schedule, rk, rt>>

PRICED == "Set Home Price"
MAXAFF == "Find Max Affordability"

\* Bounds on the exploration
MaxRuns        == 1
MaxSessionRuns == 3

\* Widget values explored (money in cents, percents in hundredths of a percent)
DefaultInputs ==
    [ annual_income        |-> 80000 * Cents,
      existing_debt        |-> 500 * Cents,
      credit_score         |-> "720-759",
      price_mode           |-> PRICED,
      home_price           |-> 400000 * Cents,
      down_payment_amount  |-> 80000 * Cents,
      down_payment_percent |-> 2000,
      interest_rate        |-> 650,
      loan_term            |-> 30,
      property_tax_rate    |-> 120,
      home_insurance       |-> 1200 * Cents,
      hoa_fees             |-> 0,
      pmi_rate             |-> 50,
      max_front_dti        |-> 2800,
      max_back_dti         |-> 3600,
      rate_step            |-> 25,
      dp_step              |-> 200,
      save_scenario        |-> FALSE ]

HomePrices          == {300000 * Cents, 400000 * Cents}
DownPaymentAmounts  == {0, 40000 * Cents, 200000 * Cents, 400000 * Cents}
DownPaymentPercents == {1000, 2000, 6000}
ExistingDebts       == {500 * Cents, 1500 * Cents, 3000 * Cents}

\* home_price is None (0) in max-affordability mode (lines 160-168)
WidgetValues(modes, hps, dps, pcts, debts) ==
    { [ [ [ [ [ DefaultInputs EXCEPT !.price_mode = m ]
                              EXCEPT !.home_price = IF m = PRICED THEN hp ELSE 0 ]
                              EXCEPT !.down_payment_amount = dp ]
                              EXCEPT !.down_payment_percent = pct ]
                              EXCEPT !.existing_debt = d ]
      : m \in modes, hp \in hps, dp \in dps, pct \in pcts, d \in debts }

Inputs        == WidgetValues({PRICED, MAXAFF}, HomePrices, DownPaymentAmounts,
                              DownPaymentPercents, ExistingDebts)
SessionInputs == WidgetValues({PRICED, MAXAFF}, HomePrices, {40000 * Cents, 400000 * Cents},
                              {2000}, {500 * Cents})

LocNames == { "monthly_income", "loan_amount", "monthly_rate", "total_months",
              "monthly_pi", "monthly_tax", "monthly_insurance", "monthly_hoa",
              "monthly_pmi", "total_monthly_payment", "front_end_dti", "back_end_dti",
              "ltv", "max_affordable_price", "home_price",
              "max_payment_front", "max_payment_back", "max_payment_constraint",
              "estimated_price", "estimated_loan", "estimated_total", "iterations",
              "risk_score", "total_interest" }

NoLocals == [ n \in LocNames |-> 0 ]

\* loc with the names of the record f rebound to its values
Bind(l, f) == f @@ l

AmIdle == [ pc |-> "idle", loan_amount |-> 0, annual_rate |-> 0, years |-> 0,
            monthly_rate |-> 0, total_months |-> 0, monthly_payment |-> 0,
            balance |-> 0, cumulative_interest |-> 0, month |-> 0 ]
RtIdle == [ pc |-> "idle", first |-> "none", rate |-> 0, nper |-> 0,
            start |-> 0, mid |-> 0, back |-> 0 ]
RkIdle == [ n |-> 0, prev |-> <<0, 0, "760+", 0>>, cur |-> <<0, 0, "760+", 0>> ]

\* The calculator's state after the first lines of the first run: an empty
\* history (lines 125-126) and the widgets at their default values.
Init ==
    /\ scenarios = <<>>
    /\ nsaves = 0
    /\ nruns = 0
    /\ inp = [ DefaultInputs EXCEPT !.home_price = 400000 * Cents ]
    /\ pc = "idle"
    /\ defined = {}
    /\ loc = NoLocals
    /\ prices = <<>>
    /\ dp_percents = <<>>
    /\ payments = <<>>
    /\ am = AmIdle
    /\ schedule = <<>>
    /\ rk = RkIdle
    /\ rt = RtIdle

\* A run has ended: completed, stopped by st.stop(), aborted by st.rerun(),
\* or ended by an uncaught exception.
RunOver == pc \in {"idle", "done", "stopped", "rerun", "fault"}

\* A slip that evicts the newest entry instead of the oldest.
SaveScenario_pop_last(scen, scenario) ==
    LET appended == Append(scen, scenario)
    IN  IF Len(appended) > 2 THEN SubSeq(appended, 1, Len(appended) - 1) ELSE appended

\* Lines 300-302: append, then pop(0) when more than 2 entries
SaveScenario(scen, scenario) ==
    LET appended == Append(scen, scenario)
    IN  IF Len(appended) > 2 THEN Tail(appended) ELSE appended

\* Lines 289-299: the dict built by the Save Scenario handler; seq stands
\* for the timestamp (the entry's place in the order of saves).
NewScenario(i, seq) ==
    [ seq                 |-> seq,
      annual_income       |-> i.annual_income,
      home_price          |-> i.home_price,
      down_payment_amount |-> i.down_payment_amount,
      interest_rate       |-> i.interest_rate,
      loan_term           |-> i.loan_term,
      monthly_payment     |-> NoneVal,
      back_end_dti        |-> NoneVal,
      ltv                 |-> NoneVal ]

\* Lines 124-309 of a run in which neither a Sync button nor Reset Inputs is
\* pressed: the widgets are read, the Save Scenario handler runs when its
\* button is pressed, monthly_income is computed.  The run that st.rerun()
\* starts reads the same widget values and no button.
StartRun(i, save, maxRuns) ==
    /\ RunOver
    /\ nruns < maxRuns
    /\ pc = "rerun" => (i = [inp EXCEPT !.save_scenario = FALSE] /\ ~save)
    /\ nruns' = nruns + 1
    /\ inp' = [i EXCEPT !.save_scenario = save]
    /\ IF save
       THEN /\ scenarios' = SaveScenario(scenarios, NewScenario(i, nsaves + 1))
            /\ nsaves' = nsaves + 1
       ELSE UNCHANGED <<scenarios, nsaves>>
    /\ loc' = Bind(NoLocals, [ monthly_income |-> RMulDiv(i.annual_income, 1, 12) ])
    /\ defined' = {"monthly_income"}
    /\ pc' = "dispatch"
    /\ prices' = <<>>
    /\ dp_percents' = <<>>
    /\ payments' = <<>>
    /\ UNCHANGED <<am, schedule, rk, rt>>

\* Lines 189-195 and 305-306: a Sync button (priced mode) or Reset Inputs is
\* pressed.  The Sync handlers rebind a local of the run and call
\* st.rerun(); Reset Inputs only calls st.rerun().  The run is abandoned,
\* its namespace is discarded and the widgets keep their values.
RerunButton(maxRuns) ==
    /\ RunOver
    /\ pc # "rerun"
    /\ nruns < maxRuns
    /\ pc' = "rerun"
    /\ loc' = NoLocals
    /\ defined' = {}
    /\ prices' = <<>>
    /\ dp_percents' = <<>>
    /\ payments' = <<>>
    /\ UNCHANGED <<scenarios, nsaves, nruns, inp, am, schedule, rk, rt>>

MonthlyTax(price, property_tax_rate) == RMulDiv(price, property_tax_rate, 100 * 100 * 12)
MonthlyPmi(loan, pmi_rate)           == RMulDiv(loan, pmi_rate, 100 * 100 * 12)
Fraction(percent)                    == RMulDiv(percent, Scale, 100 * 100)

\* A slip that rejects only a down payment above the price.
InvalidDownPayment_strict(down_payment_amount, home_price) ==
    down_payment_amount > home_price

\* Line 317
InvalidDownPayment(down_payment_amount, home_price) ==
    down_payment_amount >= home_price

\* Line 333: the PMI test of priced mode reads the percent widget
PricedPmiApplies(i) == i.down_payment_percent < 2000

\* Lines 312-345: priced mode
PricedCalc ==
    /\ pc = "dispatch"
    /\ inp.price_mode = PRICED /\ inp.home_price # 0
    /\ LET home_price   == inp.home_price
           loan_amount  == home_price - inp.down_payment_amount
           monthly_rate == MonthlyRate(inp.interest_rate)
           total_months == inp.loan_term * 12
           monthly_pi   == pmt(monthly_rate, total_months, loan_amount)
           monthly_tax  == MonthlyTax(home_price, inp.property_tax_rate)
           monthly_insurance == RMulDiv(inp.home_insurance, 1, 12)
           monthly_hoa  == inp.hoa_fees
           monthly_pmi  == IF PricedPmiApplies(inp)
                           THEN MonthlyPmi(loan_amount, inp.pmi_rate) ELSE 0
           total   == monthly_pi + monthly_tax + monthly_insurance + monthly_hoa + monthly_pmi
       IN  IF InvalidDownPayment(inp.down_payment_amount, home_price)
           THEN /\ pc' = "stopped"
                /\ loc' = Bind(loc, [ loan_amount |-> loan_amount ])
                /\ defined' = defined \cup {"loan_amount"}
           ELSE /\ pc' = "risk"
                /\ loc' = Bind(loc,
                     [ loan_amount |-> loan_amount,
                       monthly_rate |-> monthly_rate,
                       total_months |-> total_months,
                       monthly_pi |-> monthly_pi,
                       monthly_tax |-> monthly_tax,
                       monthly_insurance |-> monthly_insurance,
                       monthly_hoa |-> monthly_hoa,
                       monthly_pmi |-> monthly_pmi,
                       total_monthly_payment |-> total,
                       front_end_dti |-> FDiv(total, loc.monthly_income),
                       back_end_dti |-> FDiv(total + inp.existing_debt, loc.monthly_income),
                       ltv |-> FDiv(loan_amount, home_price),
                       home_price |-> home_price,
                       max_affordable_price |-> home_price ])
                /\ defined' = defined \cup
                     { "loan_amount", "monthly_rate", "total_months", "monthly_pi",
                       "monthly_tax", "monthly_insurance", "monthly_hoa", "monthly_pmi",
                       "total_monthly_payment", "front_end_dti", "back_end_dti", "ltv",
                       "home_price", "max_affordable_price" }
    /\ UNCHANGED <<scenarios, nsaves, nruns, inp, prices, dp_percents, payments,
                   am, schedule, rk, rt>>

SeedPrice     == 400000 * Cents
Tolerance     == 10 * Cents
FloorMargin   == 1000 * Cents
MaxIterations == 10

\* A slip in the loop bound (one pass too many).
LoopContinues_off_by_one(iterations) == iterations <= MaxIterations

\* Line 361: for _ in range(10)
LoopContinues(iterations) == iterations < MaxIterations

\* Lines 348-360: the payment constraint and the starting guess
SolverInit ==
    /\ pc = "dispatch"
    /\ ~(inp.price_mode = PRICED /\ inp.home_price # 0)
    /\ LET max_payment_front == FMul(loc.monthly_income, Fraction(inp.max_front_dti))
           max_payment_back  == FMul(loc.monthly_income, Fraction(inp.max_back_dti))
                                  - inp.existing_debt
       IN  /\ loc' = Bind(loc,
                [ max_payment_front |-> max_payment_front,
                  max_payment_back |-> max_payment_back,
                  max_payment_constraint |-> Min(max_payment_front, max_payment_back),
                  estimated_price |-> SeedPrice,
                  iterations |-> 0 ])
           /\ defined' = defined \cup { "max_payment_front", "max_payment_back",
                                        "max_payment_constraint", "estimated_price" }
    /\ pc' = IF LoopContinues(0) THEN "loop" ELSE "final"
    /\ UNCHANGED <<scenarios, nsaves, nruns, inp, prices, dp_percents, payments,
                   am, schedule, rk, rt>>

\* Lines 362-386: one pass of the loop body
SolverIterate ==
    /\ pc = "loop"
    /\ LET estimated_price == loc.estimated_price
           estimated_loan  == estimated_price - inp.down_payment_amount
           monthly_rate    == MonthlyRate(inp.interest_rate)
           total_months    == inp.loan_term * 12
           monthly_pi      == pmt(monthly_rate, total_months, estimated_loan)
           monthly_tax     == MonthlyTax(estimated_price, inp.property_tax_rate)
           monthly_insurance == RMulDiv(inp.home_insurance, 1, 12)
           monthly_hoa     == inp.hoa_fees
           monthly_pmi     == IF FDiv(inp.down_payment_amount, estimated_price) < Scale \div 5
                              THEN MonthlyPmi(estimated_loan, inp.pmi_rate) ELSE 0
           estimated_total == monthly_pi + monthly_tax + monthly_insurance
                                + monthly_hoa + monthly_pmi
           ratio           == FDiv(loc.max_payment_constraint, estimated_total)
           iterations      == loc.iterations + 1
           head            == [ estimated_loan |-> estimated_loan,
                                monthly_rate |-> monthly_rate,
                                total_months |-> total_months,
                                iterations |-> iterations ]
           body            == [ monthly_pi |-> monthly_pi,
                                monthly_tax |-> monthly_tax,
                                monthly_insurance |-> monthly_insurance,
                                monthly_hoa |-> monthly_hoa,
                                monthly_pmi |-> monthly_pmi,
                                estimated_total |-> estimated_total ]
           next_pc         == IF LoopContinues(iterations) THEN "loop" ELSE "final"
       IN  IF estimated_loan <= 0
           THEN \* lines 366-368: reseed and continue
                /\ loc' = Bind(Bind(loc, head),
                               [ estimated_price |-> inp.down_payment_amount * 2 ])
                /\ defined' = defined \cup DOMAIN head
                /\ pc' = next_pc
           ELSE IF Abs(estimated_total - loc.max_payment_constraint) < Tolerance
           THEN \* lines 381-382: break
                /\ loc' = Bind(Bind(loc, head), body)
                /\ defined' = defined \cup DOMAIN head \cup DOMAIN body
                /\ pc' = "final"
           ELSE \* lines 385-386: rescale the price
                /\ loc' = Bind(Bind(Bind(loc, head), body),
                               [ estimated_price |-> FMul(estimated_price, ratio) ])
                /\ defined' = defined \cup DOMAIN head \cup DOMAIN body
                /\ pc' = next_pc
    /\ UNCHANGED <<scenarios, nsaves, nruns, inp, prices, dp_percents, payments,
                   am, schedule, rk, rt>>

\* Lines 388-406: the final price and the recomputed values.  Reading an
\* unbound monthly_rate or total_months raises NameError.
SolverFinal ==
    /\ pc = "final"
    /\ IF ~({"monthly_rate", "total_months"} \subseteq defined)
       THEN /\ pc' = "fault"
            /\ UNCHANGED <<loc, defined>>
       ELSE LET home_price   == Max(loc.estimated_price,
                                    inp.down_payment_amount + FloorMargin)
                loan_amount  == home_price - inp.down_payment_amount
                monthly_pi   == pmt(loc.monthly_rate, loc.total_months, loan_amount)
                monthly_tax  == MonthlyTax(home_price, inp.property_tax_rate)
                monthly_insurance == RMulDiv(inp.home_insurance, 1, 12)
                monthly_hoa  == inp.hoa_fees
                monthly_pmi  == IF FDiv(inp.down_payment_amount, home_price) < Scale \div 5
                                THEN MonthlyPmi(loan_amount, inp.pmi_rate) ELSE 0
                total == monthly_pi + monthly_tax + monthly_insurance
                           + monthly_hoa + monthly_pmi
            IN  /\ pc' = "risk"
                /\ loc' = Bind(loc,
                     [ home_price |-> home_price,
                       max_affordable_price |-> home_price,
                       loan_amount |-> loan_amount,
                       monthly_pi |-> monthly_pi,
                       monthly_tax |-> monthly_tax,
                       monthly_insurance |-> monthly_insurance,
                       monthly_hoa |-> monthly_hoa,
                       monthly_pmi |-> monthly_pmi,
                       total_monthly_payment |-> total,
                       front_end_dti |-> FDiv(total, loc.monthly_income),
                       back_end_dti |-> FDiv(total + inp.existing_debt, loc.monthly_income),
                       ltv |-> FDiv(loan_amount, home_price) ])
                /\ defined' = defined \cup
                     { "home_price", "max_affordable_price", "loan_amount", "monthly_pi",
                       "monthly_tax", "monthly_insurance", "monthly_hoa", "monthly_pmi",
                       "total_monthly_payment", "front_end_dti", "back_end_dti", "ltv" }
    /\ UNCHANGED <<scenarios, nsaves, nruns, inp, prices, dp_percents, payments,
                   am, schedule, rk, rt>>

\* Lines 417-422: scenarios[-1].update(...) when the history is not empty
UpdateLast(scen, monthly_payment, back_end_dti, ltv) ==
    IF scen = <<>> THEN scen
    ELSE [ scen EXCEPT ![Len(scen)] =
             [ @ EXCEPT !.monthly_payment = monthly_payment,
                        !.back_end_dti = back_end_dti,
                        !.ltv = ltv ] ]

\* Lines 408-422: risk assessment, total interest, update of the history
RiskUpdate ==
    /\ pc = "risk"
    /\ loc' = Bind(loc,
         [ risk_score |-> calculate_risk_score(loc.back_end_dti, loc.ltv, inp.credit_score),
           total_interest |-> loc.monthly_pi * inp.loan_term * 12 - loc.loan_amount ])
    /\ defined' = defined \cup {"risk_score", "total_interest"}
    /\ scenarios' = UpdateLast(scenarios, loc.total_monthly_payment, loc.back_end_dti, loc.ltv)
    /\ pc' = "render"
    /\ UNCHANGED <<nsaves, nruns, inp, prices, dp_percents, payments, am, schedule, rk, rt>>

\* Lines 588-589
SweepRates(interest_rate, rate_step) ==
    << interest_rate - rate_step * 2, interest_rate - rate_step, interest_rate,
       interest_rate + rate_step, interest_rate + rate_step * 2 >>

\* Lines 592-601: one point of the rate curve
RatePoint(rate, l, i) ==
    LET monthly_rate_sens == MonthlyRate(rate)
        max_pi == l.max_payment_constraint
                    - (l.monthly_tax + l.monthly_insurance + l.monthly_hoa)
    IN  IF monthly_rate_sens > 0
        THEN invert_pmt(max_pi, monthly_rate_sens, i.loan_term * 12) + i.down_payment_amount
        ELSE l.max_affordable_price

\* Lines 613-617
SweepDpPercents(down_payment_percent, dp_step) ==
    << Max(0, down_payment_percent - dp_step * 2),
       Max(0, down_payment_percent - dp_step),
       down_payment_percent,
       Min(5000, down_payment_percent + dp_step),
       Min(5000, down_payment_percent + dp_step * 2) >>

\* Lines 620-632: one point of the down-payment curve
DpPoint(dp_pct, l, i) ==
    LET dp_amount_sens   == RMulDiv(l.home_price, dp_pct, 100 * 100)
        loan_amount_sens == l.home_price - dp_amount_sens
        monthly_pi_sens  == pmt(l.monthly_rate, l.total_months, loan_amount_sens)
        monthly_pmi_sens == IF dp_pct < 2000
                            THEN MonthlyPmi(loan_amount_sens, i.pmi_rate) ELSE 0
    IN  monthly_pi_sens + l.monthly_tax + l.monthly_insurance + l.monthly_hoa
          + monthly_pmi_sens

\* Lines 424-639: the page.  The summary cards, tables and the balance chart
\* (which calls make_amortization_schedule, modelled below) only display
\* values; the two sensitivity sweeps compute the curves.  The rate sweep
\* reads max_payment_constraint: an unbound name raises NameError and ends
\* the run before the down-payment sweep.
Render ==
    /\ pc = "render"
    /\ IF "max_payment_constraint" \notin defined
       THEN /\ pc' = "fault"
            /\ UNCHANGED <<prices, dp_percents, payments>>
       ELSE LET rates == SweepRates(inp.interest_rate, inp.rate_step)
                pcts  == SweepDpPercents(inp.down_payment_percent, inp.dp_step)
            IN  /\ prices' = [ k \in 1..Len(rates) |-> RatePoint(rates[k], loc, inp) ]
                /\ dp_percents' = pcts
                /\ payments' = [ k \in 1..Len(pcts) |-> DpPoint(pcts[k], loc, inp) ]
                /\ pc' = "done"
    /\ UNCHANGED <<scenarios, nsaves, nruns, inp, defined, loc, am, schedule, rk, rt>>

RunSteps ==
    \/ PricedCalc
    \/ SolverInit
    \/ SolverIterate
    \/ SolverFinal
    \/ RiskUpdate
    \/ Render

Next ==
    \/ \E i \in Inputs, save \in BOOLEAN : StartRun(i, save, MaxRuns)
    \/ RerunButton(MaxRuns)
    \/ RunSteps

Spec == Init /\ [][Next]_vars

\* A session of several runs over fewer widget values
NextSession ==
    \/ \E i \in SessionInputs, save \in BOOLEAN : StartRun(i, save, MaxSessionRuns)
    \/ RerunButton(MaxSessionRuns)
    \/ RunSteps

SpecSession == Init /\ [][NextSession]_vars

----------------------------------------------------------------------------
(* make_amortization_schedule, one pass of its loop per step               *)

MaxYears   == 2
AmortLoans == {1000 * Cents, 1200 * Cents, 250000 * Cents, 320000 * Cents}
AmortRates == {0, 600, 650, 725, 1200}

\* Lines 48-54: the locals before the loop
AmortCall(loan_amount, annual_rate, years) ==
    /\ am.pc = "idle"
    /\ LET monthly_rate == MonthlyRate(annual_rate)
           total_months == years * 12
       IN  am' = [ pc |-> "loop",
                   loan_amount |-> loan_amount,
                   annual_rate |-> annual_rate,
                   years |-> years,
                   monthly_rate |-> monthly_rate,
                   total_months |-> total_months,
                   monthly_payment |-> pmt(monthly_rate, total_months, loan_amount),
                   balance |-> loan_amount,
                   cumulative_interest |-> 0,
                   month |-> 1 ]
    /\ schedule' = <<>>
    /\ UNCHANGED <<ui_vars, rk, rt>>

\* Lines 56-72: one pass of the loop; the function returns after the break
\* or after the pass for the last month.
AmortRow ==
    /\ am.pc = "loop"
    /\ LET b == AmortBody(am.balance, am.cumulative_interest, am.month,
                          am.monthly_rate, am.monthly_payment)
       IN  /\ schedule' = Append(schedule, b.row)
           /\ am' = [ am EXCEPT !.balance = b.balance,
                                !.cumulative_interest = b.cumulative_interest,
                                !.month = IF b.balance <= 0 THEN @ ELSE @ + 1,
                                !.pc = IF b.balance <= 0 \/ am.month = am.total_months
                                       THEN "returned" ELSE "loop" ]
    /\ UNCHANGED <<ui_vars, rk, rt>>

NextAmort ==
    \/ \E l \in AmortLoans, r \in AmortRates, y \in 1..MaxYears : AmortCall(l, r, y)
    \/ AmortRow

SpecAmort == Init /\ [][NextAmort]_vars

----------------------------------------------------------------------------
(* calculate_risk_score, two successive calls                              *)

RiskSteps == 2
RiskDtis  == { k * 3 * (Scale \div 10) : k \in 0..RiskSteps }
RiskLtvs  == { k * 6 * (Scale \div 10) : k \in 0..RiskSteps }
RiskBands == CreditBands \cup {"unknown"}

RiskCall(back_end_dti, ltv, credit_score_band) ==
    /\ rk' = [ n    |-> IF rk.n < 2 THEN rk.n + 1 ELSE 2,
               prev |-> rk.cur,
               cur  |-> << back_end_dti, ltv, credit_score_band,
                           calculate_risk_score(back_end_dti, ltv, credit_score_band) >> ]
    /\ UNCHANGED <<ui_vars, am, schedule, rt>>

NextRisk == \E d \in RiskDtis, l \in RiskLtvs, b \in RiskBands : RiskCall(d, l, b)

SpecRisk == Init /\ [][NextRisk]_vars

----------------------------------------------------------------------------
(* pmt and invert_pmt, one after the other on the same rate and term       *)

\* Periodic rates: zero, a positive rate the sum 1 + rate absorbs, a positive
\* rate just above that, and the monthly rates of 0.1 %, 6.5 % and 12 % a year
PmtRates      == {0, 3, 40, MonthlyRate(10), MonthlyRate(650), MonthlyRate(1200)}
PmtPeriods    == {1, 12, 180, 360}
PmtPrincipals == {1000 * Cents, 250000 * Cents, 320000 * Cents}
PmtPayments   == {500 * Cents, 2000 * Cents}

\* invert_pmt(pmt(rate, nper, pv), rate, nper)
PmtThenInvert(rate, nper, pv) ==
    /\ rt' = IF PmtRaises(rate, nper)
             THEN [ pc |-> "raised", first |-> "pmt", rate |-> rate, nper |-> nper,
                    start |-> pv, mid |-> NoneVal, back |-> NoneVal ]
             ELSE [ pc |-> "returned", first |-> "pmt", rate |-> rate, nper |-> nper,
                    start |-> pv, mid |-> pmt(rate, nper, pv),
                    back |-> invert_pmt(pmt(rate, nper, pv), rate, nper) ]
    /\ UNCHANGED <<ui_vars, am, schedule, rk>>

\* pmt(rate, nper, invert_pmt(payment, rate, nper))
InvertThenPmt(rate, nper, payment) ==
    /\ rt' = IF PmtRaises(rate, nper)
             THEN [ pc |-> "raised", first |-> "invert_pmt", rate |-> rate, nper |-> nper,
                    start |-> payment, mid |-> invert_pmt(payment, rate, nper),
                    back |-> NoneVal ]
             ELSE [ pc |-> "returned", first |-> "invert_pmt", rate |-> rate, nper |-> nper,
                    start |-> payment, mid |-> invert_pmt(payment, rate, nper),
                    back |-> pmt(rate, nper, invert_pmt(payment, rate, nper)) ]
    /\ UNCHANGED <<ui_vars, am, schedule, rk>>

NextPmt ==
    \/ \E r \in PmtRates, n \in PmtPeriods, pv \in PmtPrincipals : PmtThenInvert(r, n, pv)
    \/ \E r \in PmtRates, n \in PmtPeriods, m \in PmtPayments : InvertThenPmt(r, n, m)

SpecPmt == Init /\ [][NextPmt]_vars

----------------------------------------------------------------------------
(* Properties                                                              *)

Priced      == inp.price_mode = PRICED /\ inp.home_price # 0
Validated   == pc \in {"stopped", "risk", "render", "done", "fault"}
ResultNames == { "monthly_pi", "monthly_tax", "monthly_pmi", "total_monthly_payment",
                 "front_end_dti", "back_end_dti", "ltv", "risk_score" }
HasResult   == "total_monthly_payment" \in defined

\* C1: in priced mode a down payment greater than or equal to the home price
\* ends the run in the InvalidInput outcome (st.error, st.stop) with no
\* result computed, and every result of priced mode has loan_amount > 0.
C1_InvalidInputStops ==
    (Priced /\ Validated) =>
        /\ (inp.down_payment_amount >= inp.home_price
              => pc = "stopped" /\ defined \cap ResultNames = {} /\ prices = <<>>)
        /\ (HasResult => loc.loan_amount > 0)

\* C1 witness: a run stopped at the boundary, down payment equal to the price
C1_Witness ==
    Priced /\ pc = "stopped" /\ inp.down_payment_amount = inp.home_price

\* C2: in max-affordability mode the recomputed total monthly payment at the
\* returned price is at most min(front, back) plus the 10 dollar tolerance.
C2_PaymentWithinConstraint ==
    (~Priced /\ HasResult) =>
        loc.total_monthly_payment <= loc.max_payment_constraint + Tolerance

\* C3: in priced mode the monthly PMI is loan_amount * pmi_rate / 100 / 12
\* exactly when down_payment / home_price < 0.20 and 0 otherwise.
C3_PricedPmiMatchesDownPayment ==
    (Priced /\ HasResult) =>
        loc.monthly_pmi =
            IF FDiv(inp.down_payment_amount, inp.home_price) < Scale \div 5
            THEN MonthlyPmi(loc.loan_amount, inp.pmi_rate) ELSE 0

\* C4: in both modes a run that passes validation draws the rate curve with
\* exactly 5 points and never reads an unbound name.
C4_RateCurveNoFault ==
    /\ pc # "fault"
    /\ pc = "done" => Len(prices) = 5

\* C5: the history holds the last min(2, number of saves) saved scenarios in
\* the order they were saved (at most 2 entries, oldest evicted first).
C5_HistoryFifo ==
    /\ Len(scenarios) = Min(2, nsaves)
    /\ \A k \in 1..Len(scenarios) : scenarios[k].seq = nsaves - Len(scenarios) + k

\* C5 witness: a third save has evicted the first entry
C5_Witness ==
    nsaves >= 3 /\ Len(scenarios) = 2 /\ scenarios[1].seq = nsaves - 1

\* C6: a step of a run in which Save Scenario is not pressed leaves every
\* entry of the history unchanged.
C6_OnlySaveMutates ==
    [][ ~inp'.save_scenario => scenarios' = scenarios ]_vars

\* C7: in every row the recorded Interest is the recorded Beginning Balance
\* times monthly_rate, and the recorded Beginning Balance is the balance owed
\* before the payment: the loan amount in month 1, the previous row's Ending
\* Balance afterwards; the clamped final row included.
C7_InterestOnBeginningBalance ==
    \A k \in 1..Len(schedule) :
        /\ schedule[k].BeginningBalance =
              (IF k = 1 THEN am.loan_amount ELSE schedule[k - 1].EndingBalance)
        /\ schedule[k].Interest = RateMul(schedule[k].BeginningBalance, am.monthly_rate)

C9_SolverBounded ==
    /\ loc.iterations <= MaxIterations
    /\ pc = "loop" => loc.iterations < MaxIterations
    /\ pc = "final" => {"monthly_rate", "total_months"} \subseteq defined
    /\ (~Priced /\ pc \in {"risk", "render", "done"}) => loc.iterations >= 1

\* C9 witness: the loop ran out of passes on a negative payment target
\* after reseeding the price
C9_Witness ==
    /\ pc = "final"
    /\ loc.iterations = MaxIterations
    /\ loc.max_payment_constraint < 0
    /\ loc.estimated_price = inp.down_payment_amount * 2

\* C10: the score does not decrease when back_end_dti grows with ltv and
\* band fixed, nor when ltv grows with back_end_dti and band fixed, and it
\* lies in [0, 100]; unrecognized bands included.
C10_RiskMonotone ==
    rk.n = 2 =>
        /\ (rk.prev[3] = rk.cur[3] /\ rk.prev[2] = rk.cur[2] /\ rk.prev[1] <= rk.cur[1])
              => rk.prev[4] <= rk.cur[4]
        /\ (rk.prev[3] = rk.cur[3] /\ rk.prev[1] = rk.cur[1] /\ rk.prev[2] <= rk.cur[2])
              => rk.prev[4] <= rk.cur[4]
        /\ rk.cur[4] >= 0 /\ rk.cur[4] <= 100 * Scale

\* C10 witness: an unrecognized band, a larger DTI and a strictly larger score
C10_Witness ==
    /\ rk.n = 2
    /\ rk.cur[3] = "unknown" /\ rk.prev[3] = "unknown"
    /\ rk.prev[2] = rk.cur[2]
    /\ rk.prev[1] < rk.cur[1]
    /\ rk.prev[4] < rk.cur[4]

\* C11: the down-payment curve of a completed page has 5 points and every
\* down-payment percentage on it, the centre point included, lies in [0, 50].
C11_DpCurveClamped ==
    pc = "done" =>
        /\ Len(dp_percents) = 5
        /\ Len(payments) = 5
        /\ \A k \in 1..Len(dp_percents) : dp_percents[k] >= 0 /\ dp_percents[k] <= 5000

\* C12: pmt and invert_pmt are inverses for every rate >= 0, every term >= 1
\* and every positive amount: neither order raises, and the value that comes
\* back is the value that went in, to within the rounding of the value in
\* between (half a cent of payment is worth up to nper/2 cents of principal;
\* half a cent of principal is worth less than a cent of payment).
C12_PmtRoundTrip ==
    rt.pc # "idle" =>
        /\ rt.pc = "returned"
        /\ rt.first = "pmt" => Abs(rt.back - rt.start) <= rt.nper
        /\ rt.first = "invert_pmt" => Abs(rt.back - rt.start) <= 2

\* C13: a run stopped by the down-payment validation leaves no entry of its
\* own in the history even when Save Scenario was pressed in it, and once a
\* run is over every entry carries a monthly_payment, a back_end_dti and an
\* ltv, the ltv being the one of the price and down payment stored with it.
C13_StoppedRunKeepsHistory ==
    /\ (pc = "stopped" /\ inp.save_scenario) =>
           \A k \in 1..Len(scenarios) : scenarios[k].seq # nsaves
    /\ pc \in {"done", "stopped", "fault"} =>
           \A k \in 1..Len(scenarios) :
               /\ scenarios[k].monthly_payment # NoneVal
               /\ scenarios[k].back_end_dti # NoneVal
               /\ scenarios[k].ltv # NoneVal
               /\ scenarios[k].home_price # 0 =>
                      scenarios[k].ltv =
                          FDiv(scenarios[k].home_price - scenarios[k].down_payment_amount,
                               scenarios[k].home_price)

=============================================================================
